---- MODULE Spec2Model ----
(***************************************************************************)
(* Model of the Replacinator in-place rewriting string cursor              *)
(* (src/src/lib.rs).  The cursor exclusively borrows the bytes of a        *)
(* string; `memory` is that whole borrowed region, `offset` is where the   *)
(* cursor's current `contents` slice starts inside it (take_start moves    *)
(* it forward), and read_position / write_position are relative to         *)
(* `contents`, exactly as in the struct.  Bytes are integers 0..255 and    *)
(* UTF-8 encoding, decoding and validation are computed on them.           *)
(* The checked build of unchecked_from_utf8 is modelled (debug_assertions  *)
(* or the safety checks left enabled).                                     *)
(***************************************************************************)
EXTENDS Integers, Sequences, FiniteSets, TLC

VARIABLES memory, offset, read_position, write_position, original_len, taken,
          written, pc, panic, last, consumer

vars == <<memory, offset, read_position, write_position, original_len, taken,
          written, pc, panic, last, consumer>>

(* ------------------------------ bounds -------------------------------- *)

\* Longest initial string, in bytes.
MaxLen == 4
\* Most take_start calls in one run.
MaxTakes == 2

(* ---------------------------- characters ------------------------------ *)

\* Characters the consumer reads and writes: one of each encoded length
\* (U+0061 'a', U+00E9, U+20AC, U+1F600).
Chars == {97, 233, 8364, 128512}

\* Option::None for an Option<char>.
None == -1

\* The filler written by synchronise: ' '.into().
Filler == 32

NoPanic == "none"

\* char::len_utf8
len_utf8(c) ==
    IF c < 128 THEN 1
    ELSE IF c < 2048 THEN 2
    ELSE IF c < 65536 THEN 3
    ELSE 4

\* char::encode_utf8, as the bytes it produces
encode_utf8(c) ==
    IF c < 128 THEN <<c>>
    ELSE IF c < 2048 THEN <<192 + (c \div 64), 128 + (c % 64)>>
    ELSE IF c < 65536 THEN
        <<224 + (c \div 4096), 128 + ((c \div 64) % 64), 128 + (c % 64)>>
    ELSE
        <<240 + (c \div 262144), 128 + ((c \div 4096) % 64),
          128 + ((c \div 64) % 64), 128 + (c % 64)>>

IsCont(b) == b >= 128 /\ b <= 191

\* core::str::from_utf8: does the byte sequence decode as UTF-8 ?
RECURSIVE Utf8Valid(_)
Utf8Valid(v) ==
    IF v = <<>> THEN TRUE
    ELSE LET b == v[1]
             n == Len(v)
             rest(k) == SubSeq(v, k + 1, n)
         IN  IF b < 128 THEN Utf8Valid(rest(1))
             ELSE IF b >= 194 /\ b <= 223 THEN
                 n >= 2 /\ IsCont(v[2]) /\ Utf8Valid(rest(2))
             ELSE IF b >= 224 /\ b <= 239 THEN
                 /\ n >= 3
                 /\ IsCont(v[2]) /\ IsCont(v[3])
                 /\ (b = 224 => v[2] >= 160)
                 /\ (b = 237 => v[2] <= 159)
                 /\ Utf8Valid(rest(3))
             ELSE IF b >= 240 /\ b <= 244 THEN
                 /\ n >= 4
                 /\ IsCont(v[2]) /\ IsCont(v[3]) /\ IsCont(v[4])
                 /\ (b = 240 => v[2] >= 144)
                 /\ (b = 244 => v[2] <= 143)
                 /\ Utf8Valid(rest(4))
             ELSE FALSE

\* str::chars().next(): decode the first character of a valid string
\* (core::str::next_code_point), None on the empty string.
chars_next(v) ==
    IF v = <<>> THEN None
    ELSE LET x == v[1]
         IN  IF x < 128 THEN x
             ELSE IF x < 224 THEN (x % 32) * 64 + (v[2] % 64)
             ELSE IF x < 240 THEN
                 (x % 16) * 4096 + (v[2] % 64) * 64 + (v[3] % 64)
             ELSE (x % 8) * 262144 + (v[2] % 64) * 4096
                  + (v[3] % 64) * 64 + (v[4] % 64)

\* The bytes of a string given as a sequence of characters.
RECURSIVE EncodeStr(_)
EncodeStr(cs) ==
    IF cs = <<>> THEN <<>> ELSE encode_utf8(cs[1]) \o EncodeStr(Tail(cs))

\* The strings a cursor may be built over: every string of Chars of at most
\* MaxLen bytes.
Strings ==
    { cs \in UNION { [1..k -> Chars] : k \in 0..MaxLen } :
        Len(EncodeStr(cs)) <= MaxLen }

(* ------------------------- the cursor, as a value --------------------- *)

\* struct Replacinator: the cursor in the current state.
Replacinator ==
    [memory |-> memory, offset |-> offset,
     read_position |-> read_position, write_position |-> write_position,
     panic |-> NoPanic]

\* self.contents
contents(s) == SubSeq(s.memory, s.offset + 1, Len(s.memory))

\* &self.contents[lo..hi]
Slice(s, lo, hi) == SubSeq(s.memory, s.offset + lo + 1, s.offset + hi)

Raise(s, what) == IF s.panic = NoPanic THEN [s EXCEPT !.panic = what] ELSE s

\* Replacinator::check_invariants
check_invariants(s) ==
    IF s.panic # NoPanic THEN s
    ELSE IF ~(s.write_position <= s.read_position) THEN Raise(s, "assert")
    ELSE IF ~(s.read_position <= Len(contents(s))) THEN Raise(s, "unreachable")
    ELSE s

\* unchecked_from_utf8 / unchecked_from_utf8_mut on the checked path:
\* the cursor after the reinterpretation of v as a string.
unchecked_from_utf8(s, v) ==
    IF s.panic # NoPanic THEN s
    ELSE IF Utf8Valid(v) THEN s
    ELSE Raise(s, "invalid_utf8")

(* ------------------------------ operations ---------------------------- *)

\* v with the bytes `bytes` stored from absolute offset `at` (0-based) on.
Splice(v, at, bytes) ==
    SubSeq(v, 1, at) \o bytes \o SubSeq(v, at + Len(bytes) + 1, Len(v))

\* <[u8]>::fill on the absolute range [lo, hi) of v.
FillRange(v, lo, hi, byte) ==
    [i \in 1..Len(v) |-> IF lo < i /\ i <= hi THEN byte ELSE v[i]]

\* Replacinator::remainder / remainder_mut: the view and the cursor after
\* the checked reinterpretation.
remainder(s) ==
    LET v == Slice(s, s.read_position, Len(contents(s)))
    IN  [st |-> unchecked_from_utf8(s, v), text |-> v]

\* start with the view cut at the read position instead of the write
\* position.
start_ToReadPosition(s) ==
    LET v == Slice(s, 0, s.read_position)
    IN  [st |-> unchecked_from_utf8(s, v), text |-> v]

\* Replacinator::start / start_mut
start(s) ==
    LET v == Slice(s, 0, s.write_position)
    IN  [st |-> unchecked_from_utf8(s, v), text |-> v]

\* invalid_region slicing contents[write_position..] instead of
\* contents[write_position..read_position].
invalid_region_ToEnd(s) ==
    [st |-> check_invariants(s), lo |-> s.write_position,
     hi |-> Len(contents(s))]

\* Replacinator::invalid_region: the gap, as a range of contents.
invalid_region(s) ==
    [st |-> check_invariants(s), lo |-> s.write_position, hi |-> s.read_position]

\* peek that consumes the character it returns.
peek_Consuming(s) ==
    LET r == remainder(s)
        value == IF r.st.panic = NoPanic THEN chars_next(r.text) ELSE None
    IN  [st |-> IF value # None
                THEN [r.st EXCEPT !.read_position = @ + len_utf8(value)]
                ELSE r.st,
         value |-> value]

\* Replacinator::peek
peek(s) ==
    LET r == remainder(s)
    IN  [st |-> r.st,
         value |-> IF r.st.panic = NoPanic THEN chars_next(r.text) ELSE None]

\* read_char that forgets to advance read_position.
read_char_NoAdvance(s) ==
    LET r == remainder(s)
        value == chars_next(r.text)
    IN  IF r.st.panic # NoPanic THEN [st |-> r.st, value |-> None]
        ELSE [st |-> check_invariants(s), value |-> value]

\* read_char advancing by one byte instead of by the character's length.
read_char_OneByte(s) ==
    LET r == remainder(s)
        value == chars_next(r.text)
    IN  IF r.st.panic # NoPanic THEN [st |-> r.st, value |-> None]
        ELSE [st |-> check_invariants(
                        IF value # None
                        THEN [s EXCEPT !.read_position = @ + 1]
                        ELSE s),
              value |-> value]

\* Replacinator::read_char
read_char(s) ==
    LET r == remainder(s)
        value == chars_next(r.text)
    IN  IF r.st.panic # NoPanic THEN [st |-> r.st, value |-> None]
        ELSE [st |-> check_invariants(
                        IF value # None
                        THEN [s EXCEPT !.read_position = @ + len_utf8(value)]
                        ELSE s),
              value |-> value]

\* write_char that stores the bytes that fit before it faults.
write_char_PartialStore(s, c) ==
    LET r == invalid_region(s)
    IN  IF r.st.panic # NoPanic THEN r.st
        ELSE IF len_utf8(c) > r.hi - r.lo
        THEN Raise([s EXCEPT !.memory =
                        Splice(@, s.offset + r.lo,
                               SubSeq(encode_utf8(c), 1, r.hi - r.lo))],
                   "write_overflow")
        ELSE check_invariants(
                 [s EXCEPT !.memory = Splice(@, s.offset + r.lo, encode_utf8(c)),
                           !.write_position = @ + len_utf8(c)])

\* write_char that forgets to advance write_position.
write_char_NoAdvance(s, c) ==
    LET r == invalid_region(s)
    IN  IF r.st.panic # NoPanic THEN r.st
        ELSE IF len_utf8(c) > r.hi - r.lo THEN Raise(r.st, "write_overflow")
        ELSE check_invariants(
                 [s EXCEPT !.memory = Splice(@, s.offset + r.lo, encode_utf8(c))])

\* Replacinator::write_char; encode_utf8 panics when the destination slice
\* is shorter than the encoding, before it stores a byte.
write_char(s, c) ==
    LET r == invalid_region(s)
    IN  IF r.st.panic # NoPanic THEN r.st
        ELSE IF len_utf8(c) > r.hi - r.lo THEN Raise(r.st, "write_overflow")
        ELSE check_invariants(
                 [s EXCEPT !.memory = Splice(@, s.offset + r.lo, encode_utf8(c)),
                           !.write_position = @ + len_utf8(c)])

\* skip_char that writes the character before it has read it.
skip_char_WriteFirst(s) ==
    LET p == peek(s)
        w == write_char(p.st, p.value)
    IN  IF p.st.panic # NoPanic \/ p.value = None THEN read_char(s)
        ELSE IF w.panic # NoPanic THEN [st |-> w, value |-> p.value]
        ELSE read_char(w)

\* skip_char that reads the character and forgets to write it back.
skip_char_NoWrite(s) == read_char(s)

\* Replacinator::skip_char
skip_char(s) ==
    LET r == read_char(s)
    IN  IF r.st.panic = NoPanic /\ r.value # None
        THEN [st |-> write_char(r.st, r.value), value |-> r.value]
        ELSE r

\* synchronise without the fill.
synchronise_NoFill(s) ==
    LET r == invalid_region(s)
    IN  IF r.st.panic # NoPanic THEN r.st
        ELSE check_invariants([s EXCEPT !.write_position = s.read_position])

\* synchronise that stores one filler character and advances the write
\* position past it, instead of closing the whole gap.
synchronise_OneByte(s) ==
    LET r == invalid_region(s)
    IN  IF r.st.panic # NoPanic THEN r.st
        ELSE IF r.hi = r.lo THEN r.st
        ELSE check_invariants(
                 [s EXCEPT !.memory = FillRange(@, s.offset + r.lo,
                                                s.offset + r.lo + 1, Filler),
                           !.write_position = @ + 1])

\* synchronise filling contents[..read_position] instead of the gap.
synchronise_FromZero(s) ==
    LET r == invalid_region(s)
    IN  IF r.st.panic # NoPanic THEN r.st
        ELSE check_invariants(
                 [s EXCEPT !.memory = FillRange(@, s.offset,
                                                s.offset + r.hi, Filler),
                           !.write_position = s.read_position])

\* Replacinator::synchronise
synchronise(s) ==
    LET r == invalid_region(s)
    IN  IF r.st.panic # NoPanic THEN r.st
        ELSE check_invariants(
                 [s EXCEPT !.memory = FillRange(@, s.offset + r.lo,
                                                s.offset + r.hi, Filler),
                           !.write_position = s.read_position])

\* take_start that resets the positions but keeps the whole buffer as its
\* contents.
take_start_NoSplit(s) ==
    LET pre_synchronised_end == s.write_position
        s1 == synchronise(s)
        text == SubSeq(s1.memory, s1.offset + 1, s1.offset + pre_synchronised_end)
        s2 == IF s1.read_position > Len(contents(s1))
              THEN Raise(s1, "split_at_mut")
              ELSE check_invariants([s1 EXCEPT !.read_position = 0,
                                               !.write_position = 0])
    IN  IF s1.panic # NoPanic
        THEN [st |-> s1, text |-> <<>>, lo |-> s.offset, hi |-> s.offset]
        ELSE [st |-> unchecked_from_utf8(s2, text), text |-> text,
              lo |-> s1.offset, hi |-> s1.offset + pre_synchronised_end]

\* take_start that splits at write_position without synchronising, so that
\* the gap stays inside the cursor's contents.
take_start_KeepGap(s) ==
    LET pre_synchronised_end == s.write_position
        s1 == check_invariants(s)
        split == s1.offset + pre_synchronised_end
        text == SubSeq(s1.memory, s1.offset + 1, s1.offset + pre_synchronised_end)
        s2 == check_invariants(
                  [s1 EXCEPT !.offset = split,
                             !.read_position = @ - pre_synchronised_end,
                             !.write_position = 0])
    IN  IF s1.panic # NoPanic
        THEN [st |-> s1, text |-> <<>>, lo |-> s.offset, hi |-> s.offset]
        ELSE [st |-> unchecked_from_utf8(s2, text), text |-> text,
              lo |-> s1.offset, hi |-> s1.offset + pre_synchronised_end]

\* take_start that forgets to reset read_position.
take_start_NoReset(s) ==
    LET pre_synchronised_end == s.write_position
        s1 == synchronise(s)
        split == s1.offset + s1.read_position
        text == SubSeq(s1.memory, s1.offset + 1, s1.offset + pre_synchronised_end)
        s2 == IF s1.read_position > Len(contents(s1))
              THEN Raise(s1, "split_at_mut")
              ELSE check_invariants([s1 EXCEPT !.offset = split,
                                               !.write_position = 0])
    IN  IF s1.panic # NoPanic
        THEN [st |-> s1, text |-> <<>>, lo |-> s.offset, hi |-> s.offset]
        ELSE [st |-> unchecked_from_utf8(s2, text), text |-> text,
              lo |-> s1.offset, hi |-> s1.offset + pre_synchronised_end]

\* take_start that measures the end of the span after synchronise.
take_start_PostSyncEnd(s) ==
    LET s1 == synchronise(s)
        end == s1.write_position
        split == s1.offset + s1.read_position
        text == SubSeq(s1.memory, s1.offset + 1, s1.offset + end)
        s2 == IF s1.read_position > Len(contents(s1))
              THEN Raise(s1, "split_at_mut")
              ELSE check_invariants([s1 EXCEPT !.offset = split,
                                               !.read_position = 0,
                                               !.write_position = 0])
    IN  IF s1.panic # NoPanic
        THEN [st |-> s1, text |-> <<>>, lo |-> s.offset, hi |-> s.offset]
        ELSE [st |-> unchecked_from_utf8(s2, text), text |-> text,
              lo |-> s1.offset, hi |-> s1.offset + end]

\* Replacinator::take_start: the returned span (text, and its absolute
\* range [lo, hi) of memory) and the cursor afterwards.
take_start(s) ==
    LET pre_synchronised_end == s.write_position
        s1 == synchronise(s)
        split == s1.offset + s1.read_position
        text == SubSeq(s1.memory, s1.offset + 1, s1.offset + pre_synchronised_end)
        s2 == IF s1.read_position > Len(contents(s1))
              THEN Raise(s1, "split_at_mut")
              ELSE check_invariants([s1 EXCEPT !.offset = split,
                                               !.read_position = 0,
                                               !.write_position = 0])
    IN  IF s1.panic # NoPanic
        THEN [st |-> s1, text |-> <<>>, lo |-> s.offset, hi |-> s.offset]
        ELSE [st |-> unchecked_from_utf8(s2, text), text |-> text,
              lo |-> s1.offset, hi |-> s1.offset + pre_synchronised_end]

\* impl Drop for Replacinator
drop(s) == synchronise(s)

\* new_in that synchronises after `with` returns rather than in a scope
\* guard, so that unwinding skips it.
new_in_exit_ReturnOnly(s, how) == IF how = "unwinding" THEN s ELSE drop(s)

\* Replacinator::new_in: `it` goes out of scope when `with` returns and
\* when a panic unwinds through it; either way it is dropped.
new_in_exit(s, how) == drop(s)

(* -------------------------------- state -------------------------------- *)

Result(op, arg, ret, text) == [op |-> op, arg |-> arg, ret |-> ret, text |-> text]

\* The state of the callback passed to new_in: its position, the locals of
\* parse_json_array (the character about to be written, `res` and the loop
\* count of the \u escape, `values` as the texts pushed) and the text `buf`
\* it was started on.  The callback of Spec is arbitrary and has none.
Callback(at, buf) ==
    [pc |-> at, c |-> None, res |-> 0, n |-> 0, values |-> <<>>, input |-> buf]

\* Replacinator::construct (through new_in) over the string cs.
Init ==
    \E cs \in Strings :
        /\ memory = EncodeStr(cs)
        /\ original_len = Len(EncodeStr(cs))
        /\ offset = 0
        /\ read_position = 0
        /\ write_position = 0
        /\ taken = <<>>
        /\ written = <<>>
        /\ pc = "running"
        /\ panic = NoPanic
        /\ last = Result("construct", None, None, <<>>)
        /\ consumer = Callback("arbitrary", <<>>)

\* Store the cursor s; a panic in the operation starts unwinding.
Commit(s) ==
    /\ memory' = s.memory
    /\ offset' = s.offset
    /\ read_position' = s.read_position
    /\ write_position' = s.write_position
    /\ panic' = s.panic
    /\ pc' = IF s.panic # NoPanic THEN "unwinding" ELSE pc

Wrote(c) == [c |-> c, by |-> "write_char"]
Filled == [c |-> Filler, by |-> "synchronise"]

Peek ==
    /\ pc = "running"
    /\ LET r == peek(Replacinator)
       IN  Commit(r.st) /\ last' = Result("peek", None, r.value, <<>>)
    /\ UNCHANGED <<original_len, taken, written, consumer>>

ReadChar ==
    /\ pc = "running"
    /\ LET r == read_char(Replacinator)
       IN  Commit(r.st) /\ last' = Result("read_char", None, r.value, <<>>)
    /\ UNCHANGED <<original_len, taken, written, consumer>>

WriteChar(c) ==
    /\ pc = "running"
    /\ LET s == write_char(Replacinator, c)
       IN  /\ Commit(s)
           /\ written' = IF s.panic = NoPanic THEN Append(written, Wrote(c))
                         ELSE written
    /\ last' = Result("write_char", c, None, <<>>)
    /\ UNCHANGED <<original_len, taken, consumer>>

SkipChar ==
    /\ pc = "running"
    /\ LET r == skip_char(Replacinator)
       IN  /\ Commit(r.st)
           /\ last' = Result("skip_char", None, r.value, <<>>)
           /\ written' = IF r.st.panic = NoPanic /\ r.value # None
                         THEN Append(written, Wrote(r.value))
                         ELSE written
    /\ UNCHANGED <<original_len, taken, consumer>>

Synchronise ==
    /\ pc = "running"
    /\ LET s == synchronise(Replacinator)
       IN  /\ Commit(s)
           /\ written' = written \o
                  [i \in 1..(s.write_position - write_position) |-> Filled]
    /\ last' = Result("synchronise", None, None, <<>>)
    /\ UNCHANGED <<original_len, taken, consumer>>

Start ==
    /\ pc = "running"
    /\ LET r == start(Replacinator)
       IN  Commit(r.st) /\ last' = Result("start", None, None, r.text)
    /\ UNCHANGED <<original_len, taken, written, consumer>>

Remainder ==
    /\ pc = "running"
    /\ LET r == remainder(Replacinator)
       IN  Commit(r.st) /\ last' = Result("remainder", None, None, r.text)
    /\ UNCHANGED <<original_len, taken, written, consumer>>

TakeStart ==
    /\ pc = "running"
    /\ Len(taken) < MaxTakes
    /\ LET r == take_start(Replacinator)
       IN  /\ Commit(r.st)
           /\ last' = Result("take_start", None, None, r.text)
           /\ taken' = Append(taken, [lo |-> r.lo, hi |-> r.hi, next |-> r.st.offset])
    /\ written' = <<>>
    /\ UNCHANGED <<original_len, consumer>>

\* A panic of the consumer inside the callback (an expect or panic! of its
\* own grammar).
ConsumerPanic ==
    /\ pc = "running"
    /\ pc' = "unwinding"
    /\ panic' = "consumer"
    /\ last' = Result("panic", None, None, <<>>)
    /\ UNCHANGED <<memory, offset, read_position, write_position, original_len,
                   taken, written, consumer>>

\* The end of the scope of new_in, reached by return or by unwinding: the
\* cursor is dropped and the borrow of the string ends.
Drop ==
    /\ pc \in {"running", "unwinding"}
    /\ LET s == new_in_exit(Replacinator, pc)
       IN  /\ memory' = s.memory
           /\ offset' = s.offset
           /\ read_position' = s.read_position
           /\ write_position' = s.write_position
           /\ pc' = IF s.panic # NoPanic THEN "aborted" ELSE "dropped"
    /\ last' = Result("drop", None, None, <<>>)
    /\ UNCHANGED <<panic, original_len, taken, written, consumer>>

Next ==
    \/ Peek
    \/ ReadChar
    \/ \E c \in Chars : WriteChar(c)
    \/ SkipChar
    \/ Synchronise
    \/ Start
    \/ Remainder
    \/ TakeStart
    \/ ConsumerPanic
    \/ Drop

Spec == Init /\ [][Next]_vars

(* ------------------- the consumer of the example ---------------------- *)

\* Longest generated JSON text, in bytes.
MaxJsonLen == 3

\* Replacinator::get_begin, which parse_json_array calls and lib.rs does not
\* define: the extraction that rebases the window as take_start does.
get_begin(s) == take_start(s)

\* The characters of the generated texts: [ ] " \ a n and the space.
JsonAlphabet == {91, 93, 34, 92, 97, 110, 32}

\* "[]", "[\"ab\"]", "[\"a\\n\"]" (the backslash and the n are two
\* characters of the text) and "[\"\\u0061\"]".
ScenarioA == <<91, 93>>
ScenarioB == <<91, 34, 97, 98, 34, 93>>
ScenarioC == <<91, 34, 97, 92, 110, 34, 93>>
ScenarioU == <<91, 34, 92, 117, 48, 48, 54, 49, 34, 93>>

\* The texts main() may have loaded into buf.
JsonTexts ==
    {ScenarioA, ScenarioB, ScenarioC, ScenarioU}
        \cup UNION { [1..k -> JsonAlphabet] : k \in 0..MaxJsonLen }

\* The character an escape stands for, None for 'u' and for the escapes
\* parse_json_array rejects.
Escaped(c) ==
    CASE c = 34 -> 34
      [] c = 92 -> 92
      [] c = 47 -> 47
      [] c = 98 -> 8
      [] c = 102 -> 12
      [] c = 110 -> 10
      [] c = 114 -> 13
      [] c = 116 -> 9
      [] OTHER -> None

\* char::to_digit(16)
to_digit16(c) ==
    IF c >= 48 /\ c <= 57 THEN c - 48
    ELSE IF c >= 97 /\ c <= 102 THEN c - 87
    ELSE IF c >= 65 /\ c <= 70 THEN c - 55
    ELSE None

\* std::char::from_u32
from_u32(v) ==
    IF v > 1114111 \/ (v >= 55296 /\ v <= 57343) THEN None ELSE v

\* new_in(&mut buf, parse_json_array) over a text of JsonTexts.
InitJson ==
    \E cs \in JsonTexts :
        /\ memory = EncodeStr(cs)
        /\ original_len = Len(EncodeStr(cs))
        /\ offset = 0
        /\ read_position = 0
        /\ write_position = 0
        /\ taken = <<>>
        /\ written = <<>>
        /\ pc = "running"
        /\ panic = NoPanic
        /\ last = Result("construct", None, None, <<>>)
        /\ consumer = Callback("open", EncodeStr(cs))

\* Store the cursor s after a step of the consumer; the step panics when the
\* cursor operation did or when the consumer rejects what it got.
ConsumerCommit(s, rejected) ==
    /\ memory' = s.memory
    /\ offset' = s.offset
    /\ read_position' = s.read_position
    /\ write_position' = s.write_position
    /\ panic' = IF s.panic # NoPanic THEN s.panic
                ELSE IF rejected THEN "consumer" ELSE NoPanic
    /\ pc' = IF s.panic # NoPanic \/ rejected THEN "unwinding" ELSE pc

\* The consumer after the step: as `next` says, unless the step panicked.
ConsumerGoes(s, rejected, next) ==
    IF s.panic # NoPanic \/ rejected
    THEN consumer' = [consumer EXCEPT !.pc = "panicked"]
    ELSE consumer' = next

\* What the calls of the consumer leave in the history variables.
Skipped(r) ==
    /\ last' = Result("skip_char", None, r.value, <<>>)
    /\ written' = IF r.st.panic = NoPanic /\ r.value # None
                  THEN Append(written, Wrote(r.value)) ELSE written
    /\ UNCHANGED <<original_len, taken>>

Read(r) ==
    /\ last' = Result("read_char", None, r.value, <<>>)
    /\ UNCHANGED <<original_len, taken, written>>

Written(s, c) ==
    /\ last' = Result("write_char", c, None, <<>>)
    /\ written' = IF s.panic = NoPanic THEN Append(written, Wrote(c))
                  ELSE written
    /\ UNCHANGED <<original_len, taken>>

Extracted(r) ==
    /\ last' = Result("take_start", None, None, r.text)
    /\ taken' = Append(taken, [lo |-> r.lo, hi |-> r.hi, next |-> r.st.offset])
    /\ written' = <<>>
    /\ UNCHANGED original_len

\* assert_eq!(src.skip_char(), Some('['))
J_Open ==
    /\ pc = "running"
    /\ consumer.pc = "open"
    /\ LET r == skip_char(Replacinator)
           rejected == r.value # 91
       IN  /\ ConsumerCommit(r.st, rejected)
           /\ ConsumerGoes(r.st, rejected, [consumer EXCEPT !.pc = "element"])
           /\ Skipped(r)

\* match src.skip_char() of the outer loop
J_Element ==
    /\ pc = "running"
    /\ consumer.pc = "element"
    /\ LET r == skip_char(Replacinator)
           rejected == r.value \notin {34, 93, 32, 10, 9}
       IN  /\ ConsumerCommit(r.st, rejected)
           /\ ConsumerGoes(r.st, rejected,
                  [consumer EXCEPT !.pc = IF r.value = 34 THEN "begin"
                                          ELSE IF r.value = 93 THEN "returned"
                                          ELSE "element"])
           /\ Skipped(r)

\* let _ = src.get_begin()
J_Begin ==
    /\ pc = "running"
    /\ consumer.pc = "begin"
    /\ LET r == get_begin(Replacinator)
       IN  /\ ConsumerCommit(r.st, FALSE)
           /\ ConsumerGoes(r.st, FALSE, [consumer EXCEPT !.pc = "string"])
           /\ Extracted(r)

\* match src.read_char().expect(..) of the inner loop
J_StringChar ==
    /\ pc = "running"
    /\ consumer.pc = "string"
    /\ LET r == read_char(Replacinator)
           rejected == r.value = None
       IN  /\ ConsumerCommit(r.st, rejected)
           /\ ConsumerGoes(r.st, rejected,
                  IF r.value = 92 THEN [consumer EXCEPT !.pc = "escape"]
                  ELSE IF r.value = 34 THEN [consumer EXCEPT !.pc = "close"]
                  ELSE [consumer EXCEPT !.pc = "copy", !.c = r.value])
           /\ Read(r)

\* match src.read_char().expect(..) after a backslash
J_Escape ==
    /\ pc = "running"
    /\ consumer.pc = "escape"
    /\ LET r == read_char(Replacinator)
           rejected == r.value = None
                          \/ (r.value # 117 /\ Escaped(r.value) = None)
       IN  /\ ConsumerCommit(r.st, rejected)
           /\ ConsumerGoes(r.st, rejected,
                  IF r.value = 117
                  THEN [consumer EXCEPT !.pc = "unicode", !.res = 0, !.n = 0]
                  ELSE [consumer EXCEPT !.pc = "copy", !.c = Escaped(r.value)])
           /\ Read(r)

\* One round of the loop over the four hex digits, and after the fourth
\* std::char::from_u32(res).expect(..)
J_Unicode ==
    /\ pc = "running"
    /\ consumer.pc = "unicode"
    /\ LET r == read_char(Replacinator)
           v == IF r.value = None THEN None ELSE to_digit16(r.value)
           res == consumer.res * 16 + v
           rejected == v = None \/ (consumer.n = 3 /\ from_u32(res) = None)
       IN  /\ ConsumerCommit(r.st, rejected)
           /\ ConsumerGoes(r.st, rejected,
                  IF consumer.n = 3
                  THEN [consumer EXCEPT !.pc = "copy", !.c = from_u32(res),
                                        !.res = 0, !.n = 0]
                  ELSE [consumer EXCEPT !.res = res, !.n = @ + 1])
           /\ Read(r)

\* src.write_char(..) of a character of the string or of a decoded escape
J_Copy ==
    /\ pc = "running"
    /\ consumer.pc = "copy"
    /\ LET s == write_char(Replacinator, consumer.c)
       IN  /\ ConsumerCommit(s, FALSE)
           /\ ConsumerGoes(s, FALSE, [consumer EXCEPT !.pc = "string", !.c = None])
           /\ Written(s, consumer.c)

\* values.push(src.get_begin())
J_Close ==
    /\ pc = "running"
    /\ consumer.pc = "close"
    /\ LET r == get_begin(Replacinator)
       IN  /\ ConsumerCommit(r.st, FALSE)
           /\ ConsumerGoes(r.st, FALSE,
                  [consumer EXCEPT !.pc = "closequote",
                                   !.values = Append(@, r.text)])
           /\ Extracted(r)

\* src.write_char('"') after the push
J_CloseQuote ==
    /\ pc = "running"
    /\ consumer.pc = "closequote"
    /\ LET s == write_char(Replacinator, 34)
       IN  /\ ConsumerCommit(s, FALSE)
           /\ ConsumerGoes(s, FALSE, [consumer EXCEPT !.pc = "element"])
           /\ Written(s, 34)

\* parse_json_array has returned or has panicked: new_in drops the cursor.
J_Exit ==
    /\ pc = "unwinding" \/ consumer.pc = "returned"
    /\ Drop

NextJson ==
    \/ J_Open
    \/ J_Element
    \/ J_Begin
    \/ J_StringChar
    \/ J_Escape
    \/ J_Unicode
    \/ J_Copy
    \/ J_Close
    \/ J_CloseQuote
    \/ J_Exit

SpecJson == InitJson /\ [][NextJson]_vars

(* ------------------------------ properties ---------------------------- *)

\* The three segments of the cursor's contents in the current state.
StartBytes == Slice(Replacinator, 0, write_position)
GapBytes == Slice(Replacinator, write_position, read_position)
RemainderBytes ==
    Slice(Replacinator, read_position, Len(contents(Replacinator)))

HasFiller(v) == \E i \in 1..Len(v) : v[i] = Filler

\* C1: after every call of every run (rejected writes change nothing), the
\* positions are ordered: 0 <= write_position <= read_position <= length of
\* contents.
C1_PositionsOrdered ==
    /\ 0 <= write_position
    /\ write_position <= read_position
    /\ read_position <= Len(contents(Replacinator))

\* A take_start has happened and the cursor then read ahead of its writes,
\* with input still unread.
C1_Witness ==
    /\ pc = "running"
    /\ Len(taken) > 0
    /\ last.op = "write_char"
    /\ 0 < write_position
    /\ write_position < read_position
    /\ read_position < Len(contents(Replacinator))

\* C2: in every reachable state the start segment and the remainder segment
\* each decode as UTF-8, and no checked reinterpretation has failed.
C2_SegmentsValid ==
    /\ Utf8Valid(StartBytes)
    /\ Utf8Valid(RemainderBytes)
    /\ panic # "invalid_utf8"

\* remainder() has just been taken while the gap holds a torn character, so
\* that the contents as a whole do not decode although both segments do.
C2_Witness ==
    /\ pc = "running"
    /\ last.op = "remainder"
    /\ Len(StartBytes) > 0
    /\ Len(last.text) > 0
    /\ ~Utf8Valid(GapBytes)
    /\ ~Utf8Valid(contents(Replacinator))

\* C3: once the cursor has been dropped, the whole original buffer decodes
\* as UTF-8 and has its original length; each extracted span decodes, and
\* the bytes abandoned behind each span are filler.
C3_WholeBufferValidAfterDrop ==
    pc = "dropped" =>
        /\ Utf8Valid(memory)
        /\ Len(memory) = original_len
        /\ \A i \in 1..Len(taken) :
              /\ Utf8Valid(SubSeq(memory, taken[i].lo + 1, taken[i].hi))
              /\ \A j \in (taken[i].hi + 1)..taken[i].next : memory[j] = Filler
        /\ write_position = read_position

\* Dropped after two extractions, one of which abandoned a non-empty gap,
\* and with a gap closed by the drop itself.
C3_Witness ==
    /\ pc = "dropped"
    /\ panic = NoPanic
    /\ Len(taken) = 2
    /\ \E i \in 1..Len(taken) : taken[i].next > taken[i].hi /\ taken[i].hi > taken[i].lo
    /\ HasFiller(RemainderBytes) = FALSE
    /\ HasFiller(StartBytes)
    /\ Len(RemainderBytes) > 0

\* C4: when the callback of new_in aborts, the very next step is the drop
\* of the cursor: it fills the gap left at the abort with filler, closes it,
\* leaves the whole buffer decodable, and only then is the borrow released.
C4_FinalizedOnUnwind ==
    [][pc = "unwinding" =>
        /\ pc' = "dropped"
        /\ last'.op = "drop"
        /\ write_position' = read_position'
        /\ read_position' = read_position
        /\ \A i \in 1..Len(memory) :
              memory'[i] = IF /\ offset + write_position < i
                              /\ i <= offset + read_position
                           THEN Filler ELSE memory[i]
        /\ Utf8Valid(memory')
        /\ Len(memory') = original_len]_vars

\* The borrow was released after a write overflow that struck with a
\* non-empty gap.
C4_Witness ==
    /\ pc = "dropped"
    /\ panic = "write_overflow"
    /\ last.op = "drop"
    /\ Len(taken) > 0
    /\ write_position > 0
    /\ memory[offset + write_position] = Filler
    /\ Len(RemainderBytes) > 0

\* C5: a write_char whose character is longer than the gap panics with the
\* bounds fault, whatever the gap size below the character's length, and
\* stores nothing: no byte and no position changes.
C5_WriteOverflowRejected ==
    [][(/\ pc = "running"
        /\ last'.op = "write_char"
        /\ len_utf8(last'.arg) > read_position - write_position) =>
            /\ pc' = "unwinding"
            /\ panic' = "write_overflow"
            /\ memory' = memory
            /\ UNCHANGED <<offset, read_position, write_position>>]_vars

\* A four-byte character was refused with a gap of three bytes and unread
\* input behind the gap.
C5_Witness ==
    /\ pc = "unwinding"
    /\ panic = "write_overflow"
    /\ last.op = "write_char"
    /\ len_utf8(last.arg) = 4
    /\ read_position - write_position = 3
    /\ Len(RemainderBytes) > 0

\* The characters stored in the start segment since the last extraction (or
\* construction), in order: all of them, and those write_char stored.
LogChars(log) == [i \in 1..Len(log) |-> log[i].c]
WrittenOrFilled == LogChars(written)
WrittenByWriteChar ==
    LogChars(SelectSeq(written, LAMBDA e : e.by = "write_char"))

\* What take_start does to the cursor, apart from what the span holds.
TakeStartEffect ==
    /\ pc' = "running"
    /\ last'.text = StartBytes
    /\ contents(Replacinator)' = RemainderBytes
    /\ write_position' = 0
    /\ read_position' = 0

C7_Original ==
    [][(pc = "running" /\ last'.op = "start") =>
            /\ last'.text = StartBytes
            /\ offset' >= offset + write_position
            /\ write_position' = 0
            /\ read_position' = 0]_vars

\* C7 amended: start() returns the bytes before write_position as a view
\* and rebases nothing: buffer, window and both positions are unchanged.
C7_StartIsView ==
    [][(pc = "running" /\ last'.op = "start") =>
            /\ pc' = "running"
            /\ last'.text = StartBytes
            /\ UNCHANGED <<memory, offset, read_position, write_position>>]_vars

\* start() has returned a non-empty view while a gap was open.
C7_Witness ==
    /\ pc = "running"
    /\ last.op = "start"
    /\ Len(last.text) > 0
    /\ last.text = StartBytes
    /\ write_position < read_position
    /\ Len(RemainderBytes) > 0

\* v begins with the bytes of w.
IsPrefix(w, v) == Len(w) <= Len(v) /\ SubSeq(v, 1, Len(w)) = w

\* C8: skip_char on a remainder that begins with the encoding of c returns
\* c, leaves that encoding at the old write position and advances both
\* positions by its length; on an empty remainder it returns None and
\* changes nothing.
C8_SkipIsCopyThrough ==
    [][(pc = "running" /\ last'.op = "skip_char") =>
            /\ pc' = "running"
            /\ offset' = offset
            /\ Len(memory') = Len(memory)
            /\ \A c \in Chars :
                  IsPrefix(encode_utf8(c), RemainderBytes) =>
                      /\ last'.ret = c
                      /\ read_position' = read_position + len_utf8(c)
                      /\ write_position' = write_position + len_utf8(c)
                      /\ SubSeq(memory', offset + write_position + 1,
                                offset + write_position + len_utf8(c))
                            = encode_utf8(c)
            /\ RemainderBytes = <<>> =>
                      /\ last'.ret = None
                      /\ UNCHANGED <<memory, read_position, write_position>>
            /\ RemainderBytes # <<>> =>
                      \E c \in Chars : IsPrefix(encode_utf8(c), RemainderBytes)]_vars

\* skip_char has copied a two-byte character over a one-byte gap, so that
\* the bytes it wrote overlap the bytes it read.
C8_Witness ==
    /\ pc = "running"
    /\ last.op = "skip_char"
    /\ last.ret = 233
    /\ read_position - write_position = 1
    /\ write_position > 2
    /\ StartBytes = SubSeq(StartBytes, 1, write_position - 2) \o encode_utf8(233)

\* C9: synchronise is idempotent: after any synchronise call, calling it
\* again leaves the positions and every byte as the first call left them.
C9_SynchroniseIdempotent ==
    [][(pc = "running" /\ last'.op = "synchronise") =>
            /\ pc' = "running"
            /\ synchronise(Replacinator') = Replacinator']_vars

\* synchronise has closed a gap of at least two bytes.
C9_Witness ==
    /\ pc = "running"
    /\ last.op = "synchronise"
    /\ Len(written) >= 3
    /\ written[Len(written)].by = "synchronise"
    /\ written[Len(written) - 1].by = "synchronise"
    /\ written[1].by = "write_char"

\* C10: synchronise sets every byte of the old gap to the filler 0x20, sets
\* write_position to read_position, and changes neither read_position nor
\* any byte outside the old gap.
C10_SynchroniseFrame ==
    [][(pc = "running" /\ last'.op = "synchronise") =>
            /\ pc' = "running"
            /\ write_position' = read_position
            /\ read_position' = read_position
            /\ offset' = offset
            /\ Len(memory') = Len(memory)
            /\ \A i \in 1..Len(memory) :
                  memory'[i] = IF /\ offset + write_position < i
                                  /\ i <= offset + read_position
                               THEN 32 ELSE memory[i]]_vars

\* synchronise has closed a gap that lay between a non-empty start segment
\* and a non-empty remainder, after an extraction.
C10_Witness ==
    /\ pc = "running"
    /\ last.op = "synchronise"
    /\ Len(taken) > 0
    /\ Len(RemainderBytes) > 0
    /\ Len(written) >= 2
    /\ written[1].by = "write_char"
    /\ written[Len(written)].by = "synchronise"

\* C11: read_char on a remainder that begins with the encoding of c returns
\* c and advances read_position by the length of that encoding; on an empty
\* remainder it returns None and leaves read_position; in both cases
\* write_position and every byte are unchanged.
C11_ReadCharFrame ==
    [][(pc = "running" /\ last'.op = "read_char") =>
            /\ pc' = "running"
            /\ UNCHANGED <<memory, offset, write_position>>
            /\ \A c \in Chars :
                  IsPrefix(encode_utf8(c), RemainderBytes) =>
                      /\ last'.ret = c
                      /\ read_position' = read_position + len_utf8(c)
            /\ RemainderBytes = <<>> =>
                      last'.ret = None /\ read_position' = read_position
            /\ RemainderBytes # <<>> =>
                      \E c \in Chars : IsPrefix(encode_utf8(c), RemainderBytes)]_vars

\* read_char has returned a two-byte character from behind a non-empty
\* start segment, with input left.
C11_Witness ==
    /\ pc = "running"
    /\ last.op = "read_char"
    /\ last.ret = 233
    /\ write_position > 0
    /\ Len(RemainderBytes) > 0

\* C12: peek changes no position and no byte, and returns what read_char
\* returns from the same state: the character whose encoding heads the
\* remainder, or None on an empty remainder.
C12_PeekIsPure ==
    [][(pc = "running" /\ last'.op = "peek") =>
            /\ pc' = "running"
            /\ UNCHANGED <<memory, offset, read_position, write_position>>
            /\ last'.ret = read_char(Replacinator).value
            /\ last'.ret = read_char(Replacinator').value
            /\ \A c \in Chars :
                  IsPrefix(encode_utf8(c), RemainderBytes) => last'.ret = c
            /\ RemainderBytes = <<>> => last'.ret = None]_vars

\* peek has returned a three-byte character that lies behind an open gap.
C12_Witness ==
    /\ pc = "running"
    /\ last.op = "peek"
    /\ last.ret = 8364
    /\ write_position < read_position
    /\ IsPrefix(encode_utf8(8364), RemainderBytes)

\* C13: a write_char that fits in the gap stores the encoding of c at the
\* old write position, advances write_position by its length and never past
\* read_position, and changes neither read_position nor any other byte (so
\* the start segment and the remainder are as before).
C13_WriteCharFrame ==
    [][(/\ pc = "running"
        /\ last'.op = "write_char"
        /\ len_utf8(last'.arg) <= read_position - write_position) =>
            LET n == len_utf8(last'.arg)
                at == offset + write_position
            IN  /\ pc' = "running"
                /\ write_position' = write_position + n
                /\ write_position' <= read_position'
                /\ UNCHANGED <<offset, read_position>>
                /\ Len(memory') = Len(memory)
                /\ SubSeq(memory', at + 1, at + n) = encode_utf8(last'.arg)
                /\ \A i \in 1..Len(memory) :
                      (i <= at \/ i > at + n) => memory'[i] = memory[i]
                /\ Slice(Replacinator', 0, write_position) = StartBytes
                /\ RemainderBytes' = RemainderBytes]_vars

\* A one-byte character was written after a non-empty start segment, into
\* a gap it does not fill, with unread input behind the gap.
C13_Witness ==
    /\ pc = "running"
    /\ last.op = "write_char"
    /\ last.arg = 97
    /\ write_position >= 2
    /\ write_position < read_position
    /\ Len(RemainderBytes) > 0
    /\ ~Utf8Valid(GapBytes)

\* The size of the gap.
Gap == read_position - write_position

\* C15 as stated: the gap grows only in read_char and shrinks only in
\* write_char; no other operation changes it.
C15_Original ==
    [][/\ Gap' > Gap => last'.op = "read_char"
       /\ Gap' < Gap => last'.op = "write_char"]_vars

\* C15 amended: the gap grows only in read_char, by the length of the
\* character read; it shrinks in write_char, by the length written, and is
\* collapsed to 0 by synchronise, take_start and the drop; skip_char, peek,
\* start and remainder leave it as it is.
C15_GapChanges ==
    [][/\ Gap' > Gap =>
            last'.op = "read_char" /\ Gap' = Gap + len_utf8(last'.ret)
       /\ Gap' < Gap =>
            \/ last'.op = "write_char" /\ Gap' = Gap - len_utf8(last'.arg)
            \/ last'.op \in {"synchronise", "take_start", "drop"} /\ Gap' = 0
       /\ last'.op \in {"skip_char", "peek", "start", "remainder", "panic"} =>
            Gap' = Gap]_vars

\* synchronise has collapsed a gap that the cursor had opened by reading
\* two characters and writing one.
C15_Witness ==
    /\ pc = "running"
    /\ last.op = "synchronise"
    /\ Gap = 0
    /\ Len(written) = 2
    /\ written[1].by = "write_char"
    /\ written[2].by = "synchronise"
    /\ read_position = 2

\* C16: the spans take_start has returned lie in the buffer in the order of
\* their extraction, without overlap, and before the cursor's contents; and
\* no step of the cursor changes a byte of a span returned earlier.
C16_SpansDisjointAndStable ==
    [][/\ \A i \in 1..Len(taken') :
            /\ taken'[i].lo <= taken'[i].hi
            /\ taken'[i].hi <= taken'[i].next
            /\ taken'[i].next <= offset'
            /\ i < Len(taken') => taken'[i].next = taken'[i + 1].lo
       /\ \A i \in 1..Len(taken) :
            /\ taken'[i] = taken[i]
            /\ SubSeq(memory', taken[i].lo + 1, taken[i].hi)
                  = SubSeq(memory, taken[i].lo + 1, taken[i].hi)]_vars

\* The cursor has written into its contents after two non-empty spans were
\* extracted.
C16_Witness ==
    /\ pc = "running"
    /\ last.op = "write_char"
    /\ Len(taken) = 2
    /\ \A i \in 1..2 : taken[i].hi > taken[i].lo
    /\ write_position > 0

\* C17: skip_char never faults: its write always fits the gap its read has
\* just enlarged, whatever the gap was before.
C17_SkipNeverOverflows ==
    [][(pc = "running" /\ last'.op = "skip_char") =>
            /\ panic' = NoPanic
            /\ pc' = "running"
            /\ write_position' <= read_position'
            /\ Gap' = Gap]_vars

\* skip_char has copied a four-byte character onto itself, the gap being
\* empty.
C17_Witness ==
    /\ pc = "running"
    /\ panic = NoPanic
    /\ last.op = "skip_char"
    /\ last.ret = 128512
    /\ Gap = 0
    /\ StartBytes = encode_utf8(128512)

\* C18: take_start leaves both positions at 0 and the bytes of the old gap
\* as filler in front of the cursor's contents; a write_char that follows
\* with nothing read in between faults with the write overflow, and no step
\* changes a byte in front of the contents again.
C18_WriteAfterTakeStartOverflows ==
    [][/\ (pc = "running" /\ last'.op = "take_start") =>
            /\ write_position' = 0 /\ read_position' = 0
            /\ offset' = offset + read_position
            /\ \A i \in (offset + write_position + 1)..(offset + read_position) :
                  memory'[i] = Filler
       /\ (/\ pc = "running"
           /\ last'.op = "write_char"
           /\ (last.op = "take_start" \/ (taken # <<>> /\ read_position = 0))) =>
            /\ panic' = "write_overflow"
            /\ pc' = "unwinding"
            /\ memory' = memory
       /\ \A i \in 1..offset : memory'[i] = memory[i]]_vars

\* A write_char directly after a take_start that abandoned a non-empty gap
\* has faulted, with input still unread.
C18_Witness ==
    /\ pc = "unwinding"
    /\ panic = "write_overflow"
    /\ last.op = "write_char"
    /\ read_position = 0
    /\ Len(taken) = 1
    /\ taken[1].next > taken[1].hi
    /\ taken[1].hi > taken[1].lo
    /\ Len(RemainderBytes) > 0

\* C19: a write_char that faults with the write overflow leaves both
\* positions, the window and every byte as they were.
C19_RejectedWriteChangesNothing ==
    [][(pc = "running" /\ last'.op = "write_char"
                       /\ panic' = "write_overflow") =>
            /\ UNCHANGED <<memory, offset, read_position, write_position>>
            /\ UNCHANGED <<taken, written>>
            /\ len_utf8(last'.arg) > Gap]_vars

\* A three-byte character was refused by a two-byte gap that holds stale
\* bytes, behind a non-empty start segment.
C19_Witness ==
    /\ pc = "unwinding"
    /\ panic = "write_overflow"
    /\ last.op = "write_char"
    /\ last.arg = 8364
    /\ Gap = 2
    /\ write_position > 0
    /\ ~HasFiller(GapBytes)

\* C20: the remainder never grows, every read_char or skip_char that
\* returns a character shrinks it by at least one byte, and on an empty
\* remainder both return None; so at most length(contents) reads succeed,
\* whatever is interleaved.
C20_ReadingTerminates ==
    [][/\ Len(RemainderBytes') <= Len(RemainderBytes)
       /\ Len(RemainderBytes) <= original_len
       /\ (last'.op \in {"read_char", "skip_char"} /\ last'.ret # None) =>
              Len(RemainderBytes') < Len(RemainderBytes)
       /\ (/\ pc = "running"
           /\ last'.op \in {"read_char", "skip_char"}
           /\ RemainderBytes = <<>>) => last'.ret = None]_vars

\* read_char has returned None at the end of a buffer of which two spans
\* were extracted on the way.
C20_Witness ==
    /\ pc = "running"
    /\ last.op = "read_char"
    /\ last.ret = None
    /\ RemainderBytes = <<>>
    /\ Len(taken) = 2
    /\ taken[2].lo > 0
    /\ offset + read_position = original_len
    /\ original_len >= 3

====
